---- MODULE Spec2Model ----
(***************************************************************************)
(* Model of wikiparsercli.main(): logging setup, search, match check,      *)
(* interactive disambiguation, and the fetch / parse / persist pipeline.   *)
(* The WikipediaSeries library, logging, coloredlogs and the console are   *)
(* the environment: every call into them is a step whose outcome is drawn  *)
(* from the outcomes the call can have.                                    *)
(***************************************************************************)
EXTENDS Integers, Sequences, FiniteSets, TLC

(* ---------------------------- bounds ---------------------------------- *)
MaxResults == 2      \* longest result list returned by the search
MaxInputLen == 2     \* longest line typed at the prompt

(* ----------------------- optional values ------------------------------ *)
\* Python's None is the empty sequence, a value v is <<v>>.
None == << >>
Some(v) == << v >>

(* ------------------------- command line ------------------------------- *)
LogLevels == {"debug", "info", "warning", "error", "critical"}
LoggerConfigs == {"", "logging.json"}
SeriesNames == {"", "Dark"}

\* What open()/json.loads()/dictConfig() can make of the file at the path.
ConfigFileStates == {"missing", "invalid_json", "rejected", "non_dict", "ok"}

(* ------------------------ search results ------------------------------ *)
Titles == {"Dark", "Dark (film)"}
QueryTypes == {"series", "miniseries"}
UrlOf(t) == "/wiki/" \o t
Candidates == {[title |-> t, url |-> UrlOf(t), query_type |-> q] : t \in Titles, q \in QueryTypes}

SeqsUpTo(S, n) == UNION {[1..k -> S] : k \in 0..n}
ResultSets == SeqsUpTo(Candidates, MaxResults)

\* check_for_match_in_result(rs) is library code: it answers with nothing or
\* with one element of rs, and the two calls need not agree.
CheckOutcomes(rs) == {None} \cup {Some(rs[i]) : i \in DOMAIN rs}

(* ----------------------------- int() ---------------------------------- *)
Digits == <<"0", "1">>
DigitSet == {Digits[i] : i \in DOMAIN Digits}
DigitValue(ch) == (CHOOSE i \in DOMAIN Digits : Digits[i] = ch) - 1
Alphabet == DigitSet \cup {"-", "+", " ", "_", "a"}
Inputs == SeqsUpTo(Alphabet, MaxInputLen)

RECURSIVE LStrip(_)
LStrip(s) == IF s # << >> /\ Head(s) = " " THEN LStrip(Tail(s)) ELSE s

RECURSIVE RStrip(_)
RStrip(s) == IF s # << >> /\ s[Len(s)] = " " THEN RStrip(SubSeq(s, 1, Len(s) - 1)) ELSE s

Strip(s) == RStrip(LStrip(s))

\* Digits with single underscores between them, as int() accepts.
ValidDigits(d) ==
    /\ d # << >>
    /\ \A i \in DOMAIN d : d[i] \in DigitSet \cup {"_"}
    /\ d[1] # "_"
    /\ d[Len(d)] # "_"
    /\ \A i \in 1..(Len(d) - 1) : ~(d[i] = "_" /\ d[i + 1] = "_")

RECURSIVE Magnitude(_, _)
Magnitude(d, acc) ==
    IF d = << >> THEN acc
    ELSE IF Head(d) = "_" THEN Magnitude(Tail(d), acc)
    ELSE Magnitude(Tail(d), 10 * acc + DigitValue(Head(d)))

ParseIntDefaultZero(s) ==
    LET t == Strip(s)
        signed == t # << >> /\ Head(t) \in {"-", "+"}
        d == IF signed THEN Tail(t) ELSE t
        m == Magnitude(d, 0)
    IN  IF ~ValidDigits(d) THEN Some(0)
        ELSE IF signed /\ Head(t) = "-" THEN Some(0 - m) ELSE Some(m)

\* int(s): Some(n), or None for ValueError.
ParseInt(s) ==
    LET t == Strip(s)
        signed == t # << >> /\ Head(t) \in {"-", "+"}
        d == IF signed THEN Tail(t) ELSE t
        m == Magnitude(d, 0)
    IN  IF ~ValidDigits(d) THEN None
        ELSE IF signed /\ Head(t) = "-" THEN Some(0 - m) ELSE Some(m)

(* --------------------------- results[c] ------------------------------- *)
\* Python list indexing: Some(1-based position), or None for IndexError.
Index(rs, c) ==
    IF 0 <= c /\ c < Len(rs) THEN Some(c + 1)
    ELSE IF c < 0 /\ 0 - Len(rs) <= c THEN Some(Len(rs) + c + 1)
    ELSE None

(* ------------------------------ logging ------------------------------- *)
\* coloredlogs.install(level=level.upper()): a LOGGER.info record reaches the
\* console iff the installed level is INFO or lower.
InfoEnabled(level) == level \in {"debug", "info"}

\* '{}:{}'.format(idx, search_result.title)
Label(idx, r) == ToString(idx) \o ":" \o r.title

(* --------------------------- classification --------------------------- *)
IsMiniseriesInverted(m) == m.query_type # "miniseries"

IsMiniseries(m) == m.query_type = "miniseries"

NeedsDisambiguationAlways(fm) == TRUE

\* `if not found_match:`
NeedsDisambiguation(fm) == fm = None

(* ------------------------------- state -------------------------------- *)
VARIABLES
    pc,             \* position of main()
    log_level,      \* args.log_level
    logger_config,  \* args.logger_config
    series_name,    \* args.series_name
    configFile,     \* what the log-config file turned out to be ("" = not read)
    infoEnabled,    \* whether INFO records reach the console
    printed,        \* the "is not valid json" diagnostic was printed
    results,        \* results
    first_check,    \* value of found_match at line 137
    found_match,    \* found_match
    shown,          \* candidate lines that reached the console
    userInput,      \* line read by input(), None before
    user_choice,    \* user_choice
    chosen,         \* results[user_choice] once it was indexed
    recheck,        \* value returned by the check at line 144, None before
    calls,          \* calls to the library and the console, in order
    miniseriesArg,  \* miniseries= argument of the season parse
    exit            \* "running", "ok", or the exception that ended the run

vars == <<pc, log_level, logger_config, series_name, configFile, infoEnabled,
          printed, results, first_check, found_match, shown, userInput,
          user_choice, chosen, recheck, calls, miniseriesArg, exit>>

argVars == <<log_level, logger_config, series_name>>

Call(fn, ok) == [fn |-> fn, ok |-> ok]

Init ==
    /\ pc = "setup_logging"
    /\ log_level \in LogLevels
    /\ logger_config \in LoggerConfigs
    /\ series_name \in SeriesNames
    /\ configFile = ""
    /\ infoEnabled = FALSE
    /\ printed = FALSE
    /\ results = << >>
    /\ first_check = None
    /\ found_match = None
    /\ shown = << >>
    /\ userInput = None
    /\ user_choice = None
    /\ chosen = None
    /\ recheck = None
    /\ calls = << >>
    /\ miniseriesArg = None
    /\ exit = "running"

\* An exception propagates out of main().
Raise(e) == pc' = "done" /\ exit' = e

(* ------------------------------ actions ------------------------------- *)
\* setup_logging(args.log_level, args.logger_config), then `if args.series_name:`
SetupLogging ==
    /\ pc = "setup_logging"
    /\ IF logger_config # ""
       THEN \E f \in ConfigFileStates :
              /\ configFile' = f
              /\ CASE f = "missing" ->
                        /\ Raise("OSError")
                        /\ UNCHANGED <<printed, infoEnabled>>
                   [] f \in {"invalid_json", "rejected"} ->
                        /\ printed' = TRUE
                        /\ Raise("SystemExit1")
                        /\ UNCHANGED infoEnabled
                   [] f = "non_dict" ->
                        /\ Raise("TypeError")
                        /\ UNCHANGED <<printed, infoEnabled>>
                   [] f = "ok" ->
                        /\ infoEnabled' \in BOOLEAN
                        /\ IF series_name # ""
                           THEN pc' = "search" /\ exit' = exit
                           ELSE pc' = "done" /\ exit' = "ok"
                        /\ UNCHANGED printed
       ELSE /\ infoEnabled' = InfoEnabled(log_level)
            /\ IF series_name # ""
               THEN pc' = "search" /\ exit' = exit
               ELSE pc' = "done" /\ exit' = "ok"
            /\ UNCHANGED <<configFile, printed>>
    /\ UNCHANGED <<argVars, results, first_check, found_match, shown, userInput,
                   user_choice, chosen, recheck, calls, miniseriesArg>>

\* results = series.search_by_name(args.series_name)
Search ==
    /\ pc = "search"
    /\ \/ \E rs \in ResultSets :
            /\ results' = rs
            /\ calls' = Append(calls, Call("search_by_name", TRUE))
            /\ pc' = "check"
            /\ exit' = exit
       \/ /\ calls' = Append(calls, Call("search_by_name", FALSE))
          /\ Raise("LibraryError")
          /\ UNCHANGED results
    /\ UNCHANGED <<argVars, configFile, infoEnabled, printed, first_check, found_match,
                   shown, userInput, user_choice, chosen, recheck, miniseriesArg>>

\* found_match = series.check_for_match_in_result(results); if not found_match:
MatchCheck ==
    /\ pc = "check"
    /\ \E fm \in CheckOutcomes(results) :
         /\ found_match' = fm
         /\ first_check' = fm
         /\ pc' = IF NeedsDisambiguation(fm) THEN "list" ELSE "fetch"
    /\ calls' = Append(calls, Call("check_for_match_in_result", TRUE))
    /\ UNCHANGED <<argVars, configFile, infoEnabled, printed, results, shown, userInput,
                   user_choice, chosen, recheck, miniseriesArg, exit>>

\* for idx, search_result in enumerate(results): LOGGER.info(...)
ListCandidates ==
    /\ pc = "list"
    /\ shown' = IF infoEnabled
                THEN [i \in 1..Len(results) |-> Label(i - 1, results[i])]
                ELSE << >>
    /\ pc' = "prompt"
    /\ UNCHANGED <<argVars, configFile, infoEnabled, printed, results, first_check,
                   found_match, userInput, user_choice, chosen, recheck, calls, miniseriesArg, exit>>

\* user_choice = int(input("Found multiple results, ..."))
Prompt ==
    /\ pc = "prompt"
    /\ calls' = Append(calls, Call("input", TRUE))
    /\ \E s \in Inputs :
         /\ userInput' = Some(s)
         /\ IF ParseInt(s) = None
            THEN Raise("ValueError") /\ UNCHANGED user_choice
            ELSE user_choice' = ParseInt(s) /\ pc' = "select" /\ exit' = exit
    /\ UNCHANGED <<argVars, configFile, infoEnabled, printed, results, first_check,
                   found_match, shown, chosen, recheck, miniseriesArg>>

\* input() at end of file on standard input
PromptEOF ==
    /\ pc = "prompt"
    /\ calls' = Append(calls, Call("input", FALSE))
    /\ Raise("EOFError")
    /\ UNCHANGED <<argVars, configFile, infoEnabled, printed, results, first_check,
                   found_match, shown, userInput, user_choice, chosen, recheck, miniseriesArg>>

SelectAccepting ==
    /\ pc = "select"
    /\ LET i == Index(results, user_choice[1]) IN
       IF i = None
       THEN /\ Raise("IndexError")
            /\ UNCHANGED <<found_match, chosen, recheck, calls>>
       ELSE /\ chosen' = Some(results[i[1]])
            /\ pc' = "fetch"
            /\ exit' = exit
            /\ \/ \E fm \in CheckOutcomes(<<results[i[1]]>>) :
                    /\ recheck' = fm
                    /\ found_match' = Some(results[i[1]])
                    /\ calls' = Append(calls, Call("check_for_match_in_result", TRUE))
               \/ UNCHANGED <<found_match, recheck, calls>>
    /\ UNCHANGED <<argVars, configFile, infoEnabled, printed, results, first_check,
                   shown, userInput, user_choice, miniseriesArg>>

\* if results[user_choice]: found_match = check_for_match_in_result([results[user_choice]])
Select ==
    /\ pc = "select"
    /\ LET i == Index(results, user_choice[1]) IN
       IF i = None
       THEN /\ Raise("IndexError")
            /\ UNCHANGED <<found_match, chosen, recheck, calls>>
       ELSE /\ chosen' = Some(results[i[1]])
            /\ pc' = "fetch"
            /\ exit' = exit
            /\ \/ \E fm \in CheckOutcomes(<<results[i[1]]>>) :
                    /\ recheck' = fm
                    /\ found_match' = fm
                    /\ calls' = Append(calls, Call("check_for_match_in_result", TRUE))
               \/ UNCHANGED <<found_match, recheck, calls>>   \* results[user_choice] is falsy
    /\ UNCHANGED <<argVars, configFile, infoEnabled, printed, results, first_check,
                   shown, userInput, user_choice, miniseriesArg>>

FetchUnguarded ==
    /\ pc = "fetch"
    /\ \/ /\ calls' = Append(calls, Call("get_soup_by_url", TRUE))
          /\ pc' = IF found_match = None THEN "done" ELSE "parse_title"
          /\ exit' = IF found_match = None THEN "ok" ELSE exit
       \/ /\ calls' = Append(calls, Call("get_soup_by_url", FALSE))
          /\ Raise("LibraryError")
    /\ UNCHANGED <<argVars, configFile, infoEnabled, printed, results, first_check,
                   found_match, shown, userInput, user_choice, chosen, recheck, miniseriesArg>>

\* soup = series.get_soup_by_url(found_match.url)
Fetch ==
    /\ pc = "fetch"
    /\ IF found_match = None
       THEN Raise("AttributeError") /\ UNCHANGED calls
       ELSE \/ /\ calls' = Append(calls, Call("get_soup_by_url", TRUE))
               /\ pc' = "parse_title"
               /\ exit' = exit
            \/ /\ calls' = Append(calls, Call("get_soup_by_url", FALSE))
               /\ Raise("LibraryError")
    /\ UNCHANGED <<argVars, configFile, infoEnabled, printed, results, first_check,
                   found_match, shown, userInput, user_choice, chosen, recheck, miniseriesArg>>

\* series.parse_series_title_and_type(found_match); the library reads the
\* match and leaves it as it was.
ParseTitle ==
    /\ pc = "parse_title"
    /\ \/ /\ calls' = Append(calls, Call("parse_series_title_and_type", TRUE))
          /\ pc' = "parse_seasons"
          /\ exit' = exit
       \/ /\ calls' = Append(calls, Call("parse_series_title_and_type", FALSE))
          /\ Raise("LibraryError")
    /\ UNCHANGED <<argVars, configFile, infoEnabled, printed, results, first_check,
                   found_match, shown, userInput, user_choice, chosen, recheck, miniseriesArg>>

ParseSeasonsIgnoringFailure ==
    /\ pc = "parse_seasons"
    /\ miniseriesArg' = Some(IsMiniseries(found_match[1]))
    /\ \E ok \in BOOLEAN :
         calls' = Append(calls, Call("parse_seasons_and_episodes_from_soup", ok))
    /\ pc' = "write"
    /\ exit' = exit
    /\ UNCHANGED <<argVars, configFile, infoEnabled, printed, results, first_check,
                   found_match, shown, userInput, user_choice, chosen, recheck>>

\* is_miniseris = ...; series.parse_seasons_and_episodes_from_soup(soup, miniseries=is_miniseris)
ParseSeasons ==
    /\ pc = "parse_seasons"
    /\ miniseriesArg' = Some(IsMiniseries(found_match[1]))
    /\ \/ /\ calls' = Append(calls, Call("parse_seasons_and_episodes_from_soup", TRUE))
          /\ pc' = "write"
          /\ exit' = exit
       \/ /\ calls' = Append(calls, Call("parse_seasons_and_episodes_from_soup", FALSE))
          /\ Raise("LibraryError")
    /\ UNCHANGED <<argVars, configFile, infoEnabled, printed, results, first_check,
                   found_match, shown, userInput, user_choice, chosen, recheck>>

\* series.write_to_file_system()
WriteToFileSystem ==
    /\ pc = "write"
    /\ \/ /\ calls' = Append(calls, Call("write_to_file_system", TRUE))
          /\ pc' = "done"
          /\ exit' = "ok"
       \/ /\ calls' = Append(calls, Call("write_to_file_system", FALSE))
          /\ Raise("LibraryError")
    /\ UNCHANGED <<argVars, configFile, infoEnabled, printed, results, first_check,
                   found_match, shown, userInput, user_choice, chosen, recheck, miniseriesArg>>

Next ==
    \/ SetupLogging
    \/ Search
    \/ MatchCheck
    \/ ListCandidates
    \/ Prompt
    \/ PromptEOF
    \/ Select
    \/ Fetch
    \/ ParseTitle
    \/ ParseSeasons
    \/ WriteToFileSystem

Spec == Init /\ [][Next]_vars

(* ----------------------- vocabulary of the claims --------------------- *)
Count(fn) == Cardinality({i \in DOMAIN calls : calls[i].fn = fn})
Prompts == Count("input")
Checks == Count("check_for_match_in_result")
PipelineFns == {"get_soup_by_url", "parse_series_title_and_type",
                "parse_seasons_and_episodes_from_soup", "write_to_file_system"}
PipelineEntered == \E i \in DOMAIN calls : calls[i].fn \in PipelineFns
SearchReturned == \E i \in DOMAIN calls : calls[i] = Call("search_by_name", TRUE)
Completed(fn) == \E i \in DOMAIN calls : calls[i] = Call(fn, TRUE)
Failed == exit \notin {"running", "ok"}

\* The order of the steps of one run.
StepOrder == <<"search_by_name", "check_for_match_in_result", "input",
               "check_for_match_in_result", "get_soup_by_url",
               "parse_series_title_and_type",
               "parse_seasons_and_episodes_from_soup", "write_to_file_system">>

RECURSIVE IsSubseq(_, _)
IsSubseq(a, b) ==
    IF a = << >> THEN TRUE
    ELSE IF b = << >> THEN FALSE
    ELSE IF Head(a) = Head(b) THEN IsSubseq(Tail(a), Tail(b))
    ELSE IsSubseq(a, Tail(b))

CallNames == [i \in DOMAIN calls |-> calls[i].fn]

\* A line that int() accepts: blanks, an optional sign, digit groups joined
\* by single underscores, blanks.
IntegerLiteral(s) ==
    \E i \in 0..Len(s) : \E j \in i..Len(s) :
        /\ \A k \in 1..i : s[k] = " "
        /\ \A k \in (j + 1)..Len(s) : s[k] = " "
        /\ LET body == SubSeq(s, i + 1, j)
               d == IF body # << >> /\ body[1] \in {"+", "-"} THEN Tail(body) ELSE body
           IN  /\ d # << >>
               /\ \A k \in DOMAIN d :
                    \/ d[k] \in DigitSet
                    \/ /\ d[k] = "_"
                       /\ 1 < k
                       /\ k < Len(d)
                       /\ d[k - 1] \in DigitSet
                       /\ d[k + 1] \in DigitSet

(* ------------------------------- C1 ----------------------------------- *)
\* C1: the pipeline (fetch, title parse, season parse, write) is entered only
\* with exactly one match, a value the authoritativeness check returned; a run
\* whose resolution ends without a match ends in a failure and has made no
\* pipeline call.
C1_PipelineOnlyWithMatch ==
    /\ (PipelineEntered \/ pc \in {"parse_title", "parse_seasons", "write"}) =>
          /\ Len(found_match) = 1
          /\ found_match \in {first_check, recheck}
    /\ (pc = "done" /\ SearchReturned /\ found_match = None) =>
          /\ Failed
          /\ ~PipelineEntered

C1_Witness ==
    /\ pc = "done"
    /\ exit = "ok"
    /\ Completed("write_to_file_system")
    /\ found_match # None

(* ------------------------------- C2 ----------------------------------- *)
\* C2: when the search returns an empty result set, the run fails with
\* NoResultsError, no prompt is issued and no candidate is indexed.
C2_EmptyResultSetNoPrompt ==
    (SearchReturned /\ results = << >>) =>
        /\ Prompts = 0
        /\ userInput = None
        /\ chosen = None
        /\ (pc = "done" => exit = "NoResultsError")

(* ------------------------------- C3 ----------------------------------- *)
\* C3: an integer selection c with c < 0 or c >= N is rejected: the run fails,
\* and no candidate is chosen, re-checked or passed to the pipeline.
C3_OutOfRangeSelectionRejected ==
    (user_choice # None /\ (user_choice[1] < 0 \/ user_choice[1] >= Len(results))) =>
        /\ chosen = None
        /\ Checks = 1
        /\ ~PipelineEntered
        /\ (pc = "done" => Failed)

(* ------------------------------- C4 ----------------------------------- *)
\* C4: when the re-check of the selected candidate returns nothing, the run
\* fails; the candidate is not accepted as the match and no pipeline call is
\* made with it.
C4_UnconfirmedSelectionFails ==
    (Checks = 2 /\ recheck = None) =>
        /\ found_match = None
        /\ ~PipelineEntered
        /\ pc \in {"fetch", "done"}
        /\ (pc = "done" => exit = "AttributeError")

C4_Witness ==
    /\ Checks = 2
    /\ recheck = None
    /\ chosen # None
    /\ pc = "done"
    /\ exit = "AttributeError"

(* ------------------------------- C5 ----------------------------------- *)
\* C5: for a result set of length N > 1 with no automatic match, once the
\* prompt was issued exactly N candidates were listed, labelled
\* <index>:<title> with 0-based indices in result-set order; and a selection
\* i in [0, N) whose re-check passes makes results[i] the match.
C5_ListsAllCandidatesThenPrompts ==
    (Len(results) > 1 /\ first_check = None /\ Prompts >= 1) =>
        /\ Prompts = 1
        /\ Len(shown) = Len(results)
        /\ \A i \in DOMAIN shown : shown[i] = ToString(i - 1) \o ":" \o results[i].title
        /\ (/\ user_choice # None
            /\ recheck # None
            /\ user_choice[1] >= 0
            /\ user_choice[1] < Len(results)) =>
                found_match = Some(results[user_choice[1] + 1])

(* ------------------------------- C6 ----------------------------------- *)
\* C6: when the check on the full result set yields a match, that match is
\* the result: no candidate list, no prompt, no second check.
C6_AutomaticPath ==
    first_check # None =>
        /\ shown = << >>
        /\ Prompts = 0
        /\ userInput = None
        /\ chosen = None
        /\ Checks = 1
        /\ found_match = first_check
        /\ pc \notin {"list", "prompt", "select"}

C6_Witness ==
    /\ Len(results) = 1
    /\ first_check = Some(results[1])
    /\ Completed("get_soup_by_url")
    /\ Prompts = 0

(* ------------------------------- C7 ----------------------------------- *)
\* C7: a non-integer line at the prompt ends the run with the propagated
\* input error: one prompt only, no candidate indexed, no re-check, no
\* pipeline call.
C7_NonIntegerSelectionFatal ==
    /\ Prompts <= 1
    /\ (userInput # None /\ ~IntegerLiteral(userInput[1])) =>
          /\ pc = "done"
          /\ exit = "ValueError"
          /\ user_choice = None
          /\ chosen = None
          /\ Checks = 1
          /\ ~PipelineEntered

C7_Witness ==
    /\ userInput = Some(<<"a">>)
    /\ Prompts = 1
    /\ exit = "ValueError"

(* ------------------------------- C8 ----------------------------------- *)
\* C8: the steps run in the order search, check, prompt, re-check, fetch,
\* title parse, season parse, write, each at most once; a failed step ends
\* the run; the write is invoked only after fetch and both parses completed.
C8_OrderedPersistLast ==
    /\ IsSubseq(CallNames, StepOrder)
    /\ \A i \in DOMAIN calls : ~calls[i].ok => (i = Len(calls) /\ pc = "done" /\ Failed)
    /\ (Count("write_to_file_system") > 0 \/ pc = "write") =>
          /\ found_match # None
          /\ Completed("get_soup_by_url")
          /\ Completed("parse_series_title_and_type")
          /\ Completed("parse_seasons_and_episodes_from_soup")

C8_Witness ==
    /\ pc = "done"
    /\ exit = "LibraryError"
    /\ calls[Len(calls)] = Call("parse_seasons_and_episodes_from_soup", FALSE)
    /\ Count("write_to_file_system") = 0

(* ------------------------------- C9 ----------------------------------- *)
\* C9: an unparseable log-config file ends the run with exit code 1 and a
\* diagnostic before any other step; that exit arises only from an
\* unparseable file; without a path, logging setup does not end the run.
C9_ExitOneOnlyForUnparseableConfig ==
    /\ configFile = "invalid_json" =>
          (exit = "SystemExit1" /\ printed /\ calls = << >> /\ pc = "done")
    /\ exit = "SystemExit1" => configFile = "invalid_json"
    /\ (logger_config = "" /\ calls = << >> /\ pc = "done") => exit = "ok"

(* ------------------------------- C10 ---------------------------------- *)
\* C10: the miniseries flag given to the season parse is true exactly when
\* the match's query_type is "miniseries", on either resolution path.
C10_MiniseriesFlag ==
    miniseriesArg # None =>
        /\ found_match # None
        /\ (miniseriesArg[1] = TRUE) <=> (found_match[1].query_type = "miniseries")

C10_Witness ==
    /\ miniseriesArg = Some(TRUE)
    /\ Checks = 2
    /\ recheck = found_match

====
